---- MODULE Spec2Model ----
(***************************************************************************)
(* Model of the task orchestration of the SEO inspector:                   *)
(*   services/task-manager.ts  (TaskManager: createTask, processTask,      *)
(*                              checkRateLimit, isValidUrl, hashUrl,       *)
(*                              calculateScore)                            *)
(*   models/database.ts        (dbOperations on the lowdb document,        *)
(*                              cleanup)                                   *)
(* JavaScript runs each handler to completion between two awaits, so one   *)
(* action is one synchronous run of the code: from a call or a resumed     *)
(* await to the next await or the return.                                  *)
(***************************************************************************)
EXTENDS Integers, Sequences, FiniteSets, TLC

VARIABLES
    tasks,           \* db.data.tasks: array of task records
    rate_limits,     \* db.data.rate_limits: array of counters
    analysis_cache,  \* db.data.analysis_cache: array of cache entries
    runningTasks,    \* TaskManager.runningTasks: Set<string>
    now,             \* the wall clock (Date.now()), in ticks
    nextId,          \* source of fresh task ids (randomUUID)
    calls,           \* the createTask invocations: position and outcome
    procs,           \* per task id: the processTask execution, its race
    passed,          \* history: calls that passed the quota check, per key
    analyzer         \* the SEOAnalyzer: its browser and its analyze calls

vars == <<tasks, rate_limits, analysis_cache, runningTasks, now, nextId,
          calls, procs, passed, analyzer>>

-----------------------------------------------------------------------------
(* Bounds of the model *)

MaxTasks == 1         \* task records created
MaxNow == 2           \* the clock stops once it has reached MaxNow
MaxCount == 2         \* calls of a client that pass per hour window (Spec)
MaxOther == 1         \* calls that pass per window outside the burst (SpecRate)

\* clock resolution: ticks in one hour (60 * 60 * 1000 ms)
TicksPerHour == 2

\* the createTask invocations that may be in flight together
Callers == {1}
CallersRate == {1, 2}

(* Optional values: a field that is undefined/null is None *)
None == <<>>
Some(v) == <<v>>

-----------------------------------------------------------------------------
(* Program constants *)

RATE_LIMIT_WITH_WEIGHTS == 20
RATE_LIMIT_DEFAULT == 5

\* the AnalysisConfig both API routes construct the TaskManager with
config == [weights |-> TRUE]

\* 60 * 60 * 1000 ms, 2 h, 24 h and 7 d in ticks
OneHour == TicksPerHour
TwoHours == 2 * TicksPerHour
OneDay == 24 * TicksPerHour
SevenDays == 7 * 24 * TicksPerHour

ERR_INVALID_URL == "Invalid URL format"
ERR_TIMEOUT == "Analysis timeout"
ERR_LOAD == "Failed to load page"

Clients == {"10.0.0.1", "10.0.0.2"}
PrimaryClient == "10.0.0.1"
UserAgent == "ua"

-----------------------------------------------------------------------------
(* URLs.  A URL string is kept as its parts: the scheme as written, the    *)
(* host as written and the trailing whitespace as written.                 *)

UrlA      == [scheme |-> "https", host |-> "a.example", ws |-> ""]
UrlAUpper == [scheme |-> "HTTPS", host |-> "A.EXAMPLE", ws |-> " "]
UrlFtp    == [scheme |-> "ftp",   host |-> "a.example", ws |-> ""]
UrlBare   == [scheme |-> "",      host |-> "a.example", ws |-> ""]
UrlInputs == {UrlA, UrlAUpper, UrlFtp, UrlBare}

\* another page
UrlB == [scheme |-> "https", host |-> "b.example", ws |-> ""]

\* one valid URL and the invalid ones; one page under two spellings
UrlsOnePage == {UrlA, UrlFtp, UrlBare}
UrlsTwoSpellings == {UrlA, UrlAUpper}

\* ASCII lower-casing of the scheme, as the URL parser does
LowerScheme(s) ==
    CASE s = "HTTPS" -> "https"
      [] s = "HTTP"  -> "http"
      [] s = "FTP"   -> "ftp"
      [] OTHER       -> s

\* new URL(url): throws (None) without a scheme, else the parsed protocol
ParseUrl(url) ==
    IF url.scheme = "" THEN None
    ELSE Some([protocol |-> LowerScheme(url.scheme)])

isValidUrl_AnyScheme(url) == ParseUrl(url) # None

isValidUrl(url) ==
    LET parsed == ParseUrl(url) IN
    IF parsed = None THEN FALSE
    ELSE parsed[1].protocol = "http" \/ parsed[1].protocol = "https"

\* sha256 of the string as given: equal only for equal strings
hashUrl(url) == <<"sha256", url.scheme, url.host, url.ws>>

-----------------------------------------------------------------------------
(* Array helpers *)

\* Array.prototype.find
Find(arr, P(_)) ==
    LET idx == {i \in 1..Len(arr) : P(arr[i])} IN
    IF idx = {} THEN None
    ELSE Some(arr[CHOOSE i \in idx : \A j \in idx : i <= j])

\* Array.prototype.filter
Filter(arr, P(_)) == SelectSeq(arr, P)

-----------------------------------------------------------------------------
(* dbOperations (models/database.ts).  Each takes the arrays it reads and  *)
(* gives the array it leaves.                                              *)

insertTask(ts, id, status, requested_url, ip_address, user_agent, t) ==
    Append(ts, [id |-> id, status |-> status, requested_url |-> requested_url,
                final_url |-> None, overall_score |-> None, grade |-> None,
                analysis_data |-> None, error_message |-> None,
                ip_address |-> ip_address, user_agent |-> user_agent,
                created_at |-> t, completed_at |-> None])

\* the arguments are optional values: None is null; "" is a falsy string
Truthy(opt) == opt # None /\ opt # Some("")

updateTaskStatus_NoStatus(ts, status, final_url, overall_score, grade, analysis_data, error_message, id, t) ==
    LET idx == {i \in 1..Len(ts) : ts[i].id = id} IN
    IF idx = {} THEN ts
    ELSE LET k == CHOOSE i \in idx : \A j \in idx : i <= j
         IN [ts EXCEPT ![k] = [ts[k] EXCEPT
                 !.final_url = IF Truthy(final_url) THEN final_url ELSE @,
                 !.overall_score =
                     IF overall_score # None THEN overall_score ELSE @,
                 !.grade = IF Truthy(grade) THEN grade ELSE @,
                 !.analysis_data =
                     IF Truthy(analysis_data) THEN analysis_data ELSE @,
                 !.error_message =
                     IF Truthy(error_message) THEN error_message ELSE @,
                 !.completed_at = Some(t)]]

updateTaskStatus_AnyRecord(ts, status, final_url, overall_score, grade, analysis_data, error_message, id, t) ==
    IF ts = <<>> THEN ts
    ELSE [ts EXCEPT ![1] = [ts[1] EXCEPT
             !.status = status,
             !.final_url = IF Truthy(final_url) THEN final_url ELSE @,
             !.overall_score =
                 IF overall_score # None THEN overall_score ELSE @,
             !.grade = IF Truthy(grade) THEN grade ELSE @,
             !.analysis_data =
                 IF Truthy(analysis_data) THEN analysis_data ELSE @,
             !.error_message =
                 IF Truthy(error_message) THEN error_message ELSE @,
             !.completed_at = Some(t)]]

updateTaskStatus_StatusOnly(ts, status, final_url, overall_score, grade, analysis_data, error_message, id, t) ==
    LET idx == {i \in 1..Len(ts) : ts[i].id = id} IN
    IF idx = {} THEN ts
    ELSE LET k == CHOOSE i \in idx : \A j \in idx : i <= j
         IN [ts EXCEPT ![k] = [ts[k] EXCEPT !.status = status,
                                            !.completed_at = Some(t)]]

updateTaskStatus_TruthyScore(ts, status, final_url, overall_score, grade, analysis_data, error_message, id, t) ==
    LET idx == {i \in 1..Len(ts) : ts[i].id = id} IN
    IF idx = {} THEN ts
    ELSE LET k == CHOOSE i \in idx : \A j \in idx : i <= j
         IN [ts EXCEPT ![k] = [ts[k] EXCEPT
                 !.status = status,
                 !.final_url = IF Truthy(final_url) THEN final_url ELSE @,
                 !.overall_score =
                     IF overall_score # None /\ overall_score # Some(0)
                     THEN overall_score ELSE @,
                 !.grade = IF Truthy(grade) THEN grade ELSE @,
                 !.analysis_data =
                     IF Truthy(analysis_data) THEN analysis_data ELSE @,
                 !.error_message =
                     IF Truthy(error_message) THEN error_message ELSE @,
                 !.completed_at = Some(t)]]

updateTaskStatus(ts, status, final_url, overall_score, grade, analysis_data, error_message, id, t) ==
    LET idx == {i \in 1..Len(ts) : ts[i].id = id} IN
    IF idx = {} THEN ts
    ELSE LET k == CHOOSE i \in idx : \A j \in idx : i <= j
             old == ts[k]
             new == [old EXCEPT
                 !.status = status,
                 !.final_url = IF Truthy(final_url) THEN final_url ELSE @,
                 !.overall_score =
                     IF overall_score # None THEN overall_score ELSE @,
                 !.grade = IF Truthy(grade) THEN grade ELSE @,
                 !.analysis_data =
                     IF Truthy(analysis_data) THEN analysis_data ELSE @,
                 !.error_message =
                     IF Truthy(error_message) THEN error_message ELSE @,
                 !.completed_at = Some(t)]
         IN [ts EXCEPT ![k] = new]

getTask(ts, id) ==
    LET match(t) == t.id = id IN Find(ts, match)

getRateLimit(rl, ip_address, hour_key) ==
    LET match(r) == r.ip_address = ip_address /\ r.hour_key = hour_key
    IN Find(rl, match)

updateRateLimit_AlwaysPush(rl, ip_address, hour_key, t) ==
    Append(rl, [ip_address |-> ip_address, hour_key |-> hour_key,
                request_count |-> 1, created_at |-> t])

updateRateLimit(rl, ip_address, hour_key, t) ==
    LET idx == {i \in 1..Len(rl) : rl[i].ip_address = ip_address
                                   /\ rl[i].hour_key = hour_key} IN
    IF idx # {}
    THEN LET k == CHOOSE i \in idx : \A j \in idx : i <= j
         IN [rl EXCEPT ![k].request_count = @ + 1]
    ELSE Append(rl, [ip_address |-> ip_address, hour_key |-> hour_key,
                     request_count |-> 1, created_at |-> t])

getCachedAnalysis_AnyStatus(cache, ts, url_hash, t) ==
    LET fresh(c) == c.url_hash = url_hash /\ c.cached_at > t - OneHour
        hit == Find(cache, fresh)
    IN IF hit = None THEN None
       ELSE LET referenced(x) == x.id = hit[1].task_id
                task == Find(ts, referenced)
            IN IF task = None THEN None ELSE Some([task_id |-> task[1].id])

getCachedAnalysis(cache, ts, url_hash, t) ==
    LET oneHourAgo == t - OneHour
        fresh(c) == c.url_hash = url_hash /\ c.cached_at > oneHourAgo
        hit == Find(cache, fresh)
    IN IF hit = None THEN None
       ELSE LET done(x) == x.id = hit[1].task_id /\ x.status = "done"
                task == Find(ts, done)
            IN IF task = None THEN None ELSE Some([task_id |-> task[1].id])

insertCache_KeepFirst(cache, url_hash, url, task_id, t) ==
    LET same(c) == c.url_hash = url_hash IN
    IF Filter(cache, same) # <<>> THEN cache
    ELSE Append(cache, [url_hash |-> url_hash, url |-> url,
                        task_id |-> task_id, cached_at |-> t])

insertCache(cache, url_hash, url, task_id, t) ==
    LET other(c) == c.url_hash # url_hash IN
    Append(Filter(cache, other),
           [url_hash |-> url_hash, url |-> url, task_id |-> task_id,
            cached_at |-> t])

\* cleanup: what it leaves of the three arrays at time t
cleanupRateLimits_OneHour(rl, t) ==
    LET keep(r) == r.created_at > t - OneHour IN Filter(rl, keep)

cleanupRateLimits_All(rl, t) ==
    LET keep(r) == r.created_at > t IN Filter(rl, keep)

cleanupRateLimits(rl, t) ==
    LET keep(r) == r.created_at > t - TwoHours IN Filter(rl, keep)

cleanupTasks_AnyStatus(ts, t) ==
    LET keep(x) == ~(x.created_at < t - OneDay) IN Filter(ts, keep)

cleanupTasks(ts, t) ==
    LET keep(x) == ~(x.status = "failed" /\ x.created_at < t - OneDay)
    IN Filter(ts, keep)

cleanupCache(cache, t) ==
    LET keep(c) == c.cached_at > t - SevenDays IN Filter(cache, keep)

-----------------------------------------------------------------------------
(* TaskManager.calculateScore.  The quotients are kept exact: the sum of   *)
(* (score / groupMaxScore) * weight over the scored groups is Num / Den.   *)

RECURSIVE SumItemWeights(_)
SumItemWeights(items) ==
    IF items = <<>> THEN 0
    ELSE Head(items).weight + SumItemWeights(Tail(items))

groupMaxScore(group) == SumItemWeights(group.items)

\* the groups the loop scores: those with groupMaxScore > 0
Scored(checks) ==
    LET scored(g) == groupMaxScore(g) > 0 IN Filter(checks, scored)

RECURSIVE Den(_)
Den(groups) ==
    IF groups = <<>> THEN 1
    ELSE groupMaxScore(Head(groups)) * Den(Tail(groups))

RECURSIVE Num(_)
Num(groups) ==
    IF groups = <<>> THEN 0
    ELSE Head(groups).score * Head(groups).weight * Den(Tail(groups))
         + groupMaxScore(Head(groups)) * Num(Tail(groups))

RECURSIVE totalPossibleWeight(_)
totalPossibleWeight(groups) ==
    IF groups = <<>> THEN 0
    ELSE Head(groups).weight + totalPossibleWeight(Tail(groups))

MathRound_Floor(n, d) == n \div d

\* Math.round(n / d) for d > 0: the nearest integer, a half rounds up
MathRound(n, d) == (2 * n + d) \div (2 * d)

overallScoreOf_ScoredAsZero(checks) ==
    LET g == Scored(checks)
        w == totalPossibleWeight(checks)
    IN IF w > 0 THEN MathRound(100 * Num(g), Den(g) * w) ELSE 0

overallScoreOf(checks) ==
    LET g == Scored(checks)
        w == totalPossibleWeight(g)
    IN IF w > 0 THEN MathRound(100 * Num(g), Den(g) * w) ELSE 0

gradeOf_Exclusive(overallScore) ==
    IF overallScore > 90 THEN "A"
    ELSE IF overallScore > 80 THEN "B"
    ELSE IF overallScore > 70 THEN "C"
    ELSE IF overallScore > 60 THEN "D"
    ELSE "E"

gradeOf(overallScore) ==
    IF overallScore >= 90 THEN "A"
    ELSE IF overallScore >= 80 THEN "B"
    ELSE IF overallScore >= 70 THEN "C"
    ELSE IF overallScore >= 60 THEN "D"
    ELSE "E"

RECURSIVE itemWarnings_AnyPriority(_, _)
itemWarnings_AnyPriority(group, items) ==
    IF items = <<>> THEN <<>>
    ELSE (IF Head(items).score < Head(items).weight
          THEN << <<group.group, Head(items).advice>> >> ELSE <<>>)
         \o itemWarnings_AnyPriority(group, Tail(items))

RECURSIVE itemWarnings(_, _)
itemWarnings(group, items) ==
    IF items = <<>> THEN <<>>
    ELSE (IF Head(items).score < Head(items).weight
             /\ Head(items).priority = "high"
          THEN << <<group.group, Head(items).advice>> >> ELSE <<>>)
         \o itemWarnings(group, Tail(items))

RECURSIVE warningsOf(_)
warningsOf(checks) ==
    IF checks = <<>> THEN <<>>
    ELSE (IF groupMaxScore(Head(checks)) > 0
          THEN itemWarnings(Head(checks), Head(checks).items) ELSE <<>>)
         \o warningsOf(Tail(checks))

calculateScore(checks) ==
    [overallScore |-> overallScoreOf(checks),
     grade |-> gradeOf(overallScoreOf(checks)),
     warnings |-> warningsOf(checks)]

(* JSON.  The values of an item's evidence are JavaScript values: a        *)
(* number, NaN, null or undefined.  JSON.stringify writes NaN as null and  *)
(* leaves out a property whose value is undefined; JSON.parse gives back   *)
(* what the text holds, and a property the text lacks reads as undefined.  *)
JSNumber(n) == [type |-> "number", n |-> n]
JSNaN == [type |-> "NaN", n |-> 0]
JSNull == [type |-> "null", n |-> 0]
JSUndefined == [type |-> "undefined", n |-> 0]

stringifyProperty(v) ==
    IF v.type = "NaN" THEN [token |-> "null", n |-> 0]
    ELSE IF v.type = "undefined" THEN [token |-> "omitted", n |-> 0]
    ELSE [token |-> v.type, n |-> v.n]

parseProperty(t) ==
    IF t.token = "omitted" THEN JSUndefined ELSE [type |-> t.token, n |-> t.n]

stringifyGroup(g) ==
    [g EXCEPT !.items =
        [i \in 1..Len(@) |-> [@[i] EXCEPT !.evidence = stringifyProperty(@)]]]

parseGroup(g) ==
    [g EXCEPT !.items =
        [i \in 1..Len(@) |-> [@[i] EXCEPT !.evidence = parseProperty(@)]]]

\* JSON.stringify of the analysis data, and JSON.parse of the stored text
JSONstringify(v) ==
    <<"json", [v EXCEPT !.checks = [i \in 1..Len(@) |-> stringifyGroup(@[i])]]>>

JSONparse(text) ==
    [text[2] EXCEPT !.checks = [i \in 1..Len(@) |-> parseGroup(@[i])]]

(* TaskManager.getTask (task-manager.ts 55-75): the record of the id with  *)
(* its analysis data parsed; analysisData?.x is undefined without data.    *)
TaskManager_getTask(ts, taskId) ==
    LET task == getTask(ts, taskId) IN
    IF task = None THEN None
    ELSE LET analysisData == IF Truthy(task[1].analysis_data)
                             THEN Some(JSONparse(task[1].analysis_data[1]))
                             ELSE None
         IN Some([id |-> task[1].id,
                  status |-> task[1].status,
                  requestedUrl |-> task[1].requested_url,
                  finalUrl |-> task[1].final_url,
                  overallScore |-> task[1].overall_score,
                  grade |-> task[1].grade,
                  checks |-> IF analysisData = None THEN None
                             ELSE Some(analysisData[1].checks),
                  cwv |-> IF analysisData = None THEN None
                          ELSE analysisData[1].cwv,
                  warnings |-> IF analysisData = None THEN None
                               ELSE Some(analysisData[1].warnings),
                  errorMessage |-> task[1].error_message,
                  createdAt |-> task[1].created_at,
                  completedAt |-> task[1].completed_at])

-----------------------------------------------------------------------------
(* What the analyzer can give back (SEOAnalyzer.analyze): a context and    *)
(* check groups, or a rejection with an Error.                             *)

ItemWith(w, s, advice, priority, evidence) ==
    [weight |-> w, score |-> s, advice |-> advice, priority |-> priority,
     evidence |-> evidence]

\* an item whose evidence is undefined (e.g. no canonical link in the page)
Item(w, s, advice, priority) == ItemWith(w, s, advice, priority, JSUndefined)

ChecksGood ==
    << [group |-> "technical", weight |-> 30, score |-> 30,
        items |-> << Item(30, 30, "ok", "high") >>] >>

ChecksPoor ==
    << [group |-> "technical", weight |-> 30, score |-> 5,
        items |-> << Item(10, 5, "fix title", "high"),
                     Item(10, 0, "add alt text", "low") >>],
       [group |-> "social", weight |-> 10, score |-> 0, items |-> << >>] >>

ResultGood ==
    [context |-> [finalUrl |-> "https://a.example/", cwv |-> None],
     checks |-> ChecksGood]
\* every item scores 0: the overall score is 0
ChecksZero ==
    << [group |-> "content", weight |-> 25, score |-> 0,
        items |-> << ItemWith(5, 0, "add a title", "high", JSNumber(0)) >>] >>

ResultZero ==
    [context |-> [finalUrl |-> "https://a.example/", cwv |-> None],
     checks |-> ChecksZero]
ResultPoor ==
    [context |-> [finalUrl |-> "https://a.example/", cwv |-> None],
     checks |-> ChecksPoor]
AnalysisResults == {ResultGood, ResultPoor, ResultZero}

\* the messages of the Errors the analysis rejects with
AnalysisErrors == {ERR_LOAD}

\* the values a promise rejects with: new Error(message), and a value
\* that has no message property (error.message is undefined)
NewError(message) == [message |-> Some(message)]
NoMessage == [message |-> None]

\* what the analysis rejects with: its own Errors, and whatever the
\* browser library throws and crawlAndRender rethrows
AnalysisFaults == {NewError(m) : m \in AnalysisErrors} \cup {NewError(""), NoMessage}

-----------------------------------------------------------------------------
(* TaskManager.checkRateLimit *)

\* new Date().toISOString().slice(0, 13): the calendar hour of t
hourKey(t) == t \div TicksPerHour

rateLimit == IF config.weights THEN RATE_LIMIT_WITH_WEIGHTS
             ELSE RATE_LIMIT_DEFAULT

\* `Rate limit exceeded. Maximum ${limit} requests per hour.`
rateLimitMessage(limit) ==
    IF limit = RATE_LIMIT_WITH_WEIGHTS
    THEN "Rate limit exceeded. Maximum 20 requests per hour."
    ELSE "Rate limit exceeded. Maximum 5 requests per hour."

ERR_RATE_LIMIT == rateLimitMessage(rateLimit)

\* getRateLimit(ip, hourKey)?.request_count || 0
currentCount(rl, ipAddress, t) ==
    LET r == getRateLimit(rl, ipAddress, hourKey(t)) IN
    IF r = None THEN 0 ELSE r[1].request_count

rateLimitExceeded_OffByOne(rl, ipAddress, t) ==
    currentCount(rl, ipAddress, t) > rateLimit

\* if (currentCount >= limit)
rateLimitExceeded(rl, ipAddress, t) ==
    currentCount(rl, ipAddress, t) >= rateLimit

checkRateLimit_IncrementFirst(rl, ipAddress, t) ==
    [threw |-> rateLimitExceeded(rl, ipAddress, t),
     rate_limits |-> updateRateLimit(rl, ipAddress, hourKey(t), t)]

\* whether it throws, and the counters it leaves
checkRateLimit(rl, ipAddress, t) ==
    IF rateLimitExceeded(rl, ipAddress, t)
    THEN [threw |-> TRUE, rate_limits |-> rl]
    ELSE [threw |-> FALSE,
          rate_limits |-> updateRateLimit(rl, ipAddress, hourKey(t), t)]

-----------------------------------------------------------------------------
(* SEOAnalyzer (database.ts 198-222).  A browser is named by the task      *)
(* whose analyze call launched it.  analyze runs without a pause up to its *)
(* first await: with no browser it calls initialize, which calls           *)
(* chromium.launch and waits for it; with a browser it goes on to          *)
(* crawlAndRender.  What an analyze call does after that first step is,    *)
(* for the task lifecycle, part of its pending analysis; the launch is a   *)
(* step of its own in SpecBrowser.                                         *)

NewAnalyzer == [browser |-> None, launched |-> {}, at |-> <<>>]

SetAt(an, id, pc) ==
    [an EXCEPT !.at = [i \in DOMAIN an.at \cup {id} |->
                          IF i = id THEN pc ELSE an.at[i]]]

\* if (!this.browser)
needsBrowser(an) == an.browser = None

analyzeStart(an, id) ==
    IF needsBrowser(an)
    THEN [SetAt(an, id, "launching") EXCEPT !.launched = @ \cup {id}]
    ELSE SetAt(an, id, "crawling")

\* chromium.launch of the call of id resolved: this.browser = ...
initializeDone(an, id) ==
    [SetAt(an, id, "crawling") EXCEPT !.browser = Some(id)]

-----------------------------------------------------------------------------
(* State *)

IdleCall == [pc |-> "idle", url |-> None, ip |-> None, result |-> None]
Thrown(msg) == [kind |-> "thrown", value |-> msg]
Returned(id) == [kind |-> "returned", value |-> id]

InitWith(callers) ==
    /\ tasks = <<>>
    /\ rate_limits = <<>>
    /\ analysis_cache = <<>>
    /\ runningTasks = {}
    /\ now = 0
    /\ nextId = 1
    /\ calls = [c \in callers |-> IdleCall]
    /\ procs = <<>>
    /\ passed = <<>>
    /\ analyzer = NewAnalyzer

\* one more call that passed the quota check for (ip, hour)
Passed(ipAddress, t) ==
    LET key == <<ipAddress, hourKey(t)>> IN
    IF key \in DOMAIN passed THEN [passed EXCEPT ![key] = @ + 1]
    ELSE passed @@ (key :> 1)

-----------------------------------------------------------------------------
(* createTask, first run: validation and the quota check, up to the await  *)
(* of checkRateLimit (task-manager.ts 17-24).                              *)

\* the call after checkRateLimit: thrown, or suspended at the await
AfterRateLimit(checked, url, ipAddress) ==
    IF checked.threw
    THEN [IdleCall EXCEPT !.result = Some(Thrown(ERR_RATE_LIMIT))]
    ELSE [pc |-> "awaitRateLimit", url |-> Some(url),
          ip |-> Some(ipAddress), result |-> None]

CreateTaskStart_RateFirst(c, url, ipAddress) ==
    LET checked == checkRateLimit(rate_limits, ipAddress, now) IN
    /\ calls[c].pc = "idle"
    /\ rate_limits' = checked.rate_limits
    /\ passed' = IF checked.threw THEN passed ELSE Passed(ipAddress, now)
    /\ calls' = [calls EXCEPT ![c] =
          IF checked.threw \/ isValidUrl(url)
          THEN AfterRateLimit(checked, url, ipAddress)
          ELSE [IdleCall EXCEPT !.result = Some(Thrown(ERR_INVALID_URL))]]
    /\ UNCHANGED <<tasks, analysis_cache, runningTasks, now, nextId, procs,
                   analyzer>>

CreateTaskStart_CacheFirst(c, url, ipAddress) ==
    LET checked == checkRateLimit(rate_limits, ipAddress, now)
        cachedTask == getCachedAnalysis(analysis_cache, tasks, hashUrl(url),
                                        now)
    IN /\ calls[c].pc = "idle"
       /\ IF ~isValidUrl(url)
          THEN /\ calls' = [calls EXCEPT ![c] =
                     [IdleCall EXCEPT
                        !.result = Some(Thrown(ERR_INVALID_URL))]]
               /\ UNCHANGED <<rate_limits, passed>>
          ELSE IF cachedTask # None
          THEN /\ calls' = [calls EXCEPT ![c] =
                     [IdleCall EXCEPT
                        !.result = Some(Returned(cachedTask[1].task_id))]]
               /\ UNCHANGED <<rate_limits, passed>>
          ELSE /\ rate_limits' = checked.rate_limits
               /\ passed' = IF checked.threw THEN passed
                            ELSE Passed(ipAddress, now)
               /\ calls' = [calls EXCEPT ![c] =
                     AfterRateLimit(checked, url, ipAddress)]
       /\ UNCHANGED <<tasks, analysis_cache, runningTasks, now, nextId,
                      procs, analyzer>>

CreateTaskStart(c, url, ipAddress) ==
    /\ calls[c].pc = "idle"
    /\ IF ~isValidUrl(url)
       THEN /\ calls' = [calls EXCEPT ![c] =
                  [IdleCall EXCEPT !.result = Some(Thrown(ERR_INVALID_URL))]]
            /\ UNCHANGED <<rate_limits, passed>>
       ELSE LET checked == checkRateLimit(rate_limits, ipAddress, now) IN
            /\ rate_limits' = checked.rate_limits
            /\ passed' = IF checked.threw THEN passed
                         ELSE Passed(ipAddress, now)
            /\ calls' = [calls EXCEPT ![c] =
                  AfterRateLimit(checked, url, ipAddress)]
    /\ UNCHANGED <<tasks, analysis_cache, runningTasks, now, nextId, procs,
                   analyzer>>

(* processTask up to its await of Promise.race (task-manager.ts 77-94):    *)
(* the re-entry guard, the running set, the status write, the timer and    *)
(* the start of the analysis.  Gives the tasks, the set and the process.   *)
NewProc == [pc |-> "racing", analysis |-> "pending", timer |-> "armed",
            error |-> None, value |-> None]
NoProc == [pc |-> "finished", analysis |-> "none", timer |-> "none",
           error |-> None, value |-> None]

processTaskStart(ts, running, taskId, t) ==
    IF taskId \in running
    THEN [tasks |-> ts, running |-> running, proc |-> NoProc]
    ELSE [tasks |-> updateTaskStatus(ts, "running", None, None, None, None,
                                     None, taskId, t),
          running |-> running \cup {taskId},
          proc |-> NewProc]

AfterDispatch_Awaited(taskId) ==
    [pc |-> "awaitProcessTask", url |-> None, ip |-> None, result |-> None]

\* the call after processTask(...).catch(...) was started: return taskId
AfterDispatch(taskId) == [IdleCall EXCEPT !.result = Some(Returned(taskId))]

(* createTask, second run: the cache lookup, and on a miss the new task    *)
(* and the start of processTask (task-manager.ts 26-52).                   *)
CreateTaskCache(c, maxTasks) ==
    /\ calls[c].pc = "awaitRateLimit"
    /\ LET url == calls[c].url[1]
           ipAddress == calls[c].ip[1]
           urlHash == hashUrl(url)
           cachedTask == getCachedAnalysis(analysis_cache, tasks, urlHash, now)
       IN IF cachedTask # None
          THEN /\ calls' = [calls EXCEPT ![c] =
                     [IdleCall EXCEPT
                        !.result = Some(Returned(cachedTask[1].task_id))]]
               /\ UNCHANGED <<tasks, runningTasks, nextId, procs, analyzer>>
          ELSE /\ nextId <= maxTasks
               /\ LET taskId == nextId
                      inserted == insertTask(tasks, taskId, "queued", url,
                                             ipAddress, UserAgent, now)
                      started == processTaskStart(inserted, runningTasks,
                                                  taskId, now)
                  IN /\ tasks' = started.tasks
                     /\ runningTasks' = started.running
                     /\ procs' = procs @@ (taskId :> started.proc)
                     /\ nextId' = nextId + 1
                     /\ analyzer' = analyzeStart(analyzer, taskId)
                     /\ calls' = [calls EXCEPT ![c] = AfterDispatch(taskId)]
    /\ UNCHANGED <<rate_limits, analysis_cache, now, passed>>

-----------------------------------------------------------------------------
(* processTask after the await (task-manager.ts 94-124) and the .catch     *)
(* handler of createTask (39-50).                                          *)

raceOpen_Always(p) == p.pc # "none"

\* the await resumes with the first promise of the race to settle
raceOpen(p) == p.pc = "racing"

\* the analysis resolves; if it wins the race the success path runs
AnalysisResolve(id, result) ==
    /\ id \in DOMAIN procs
    /\ procs[id].analysis = "pending"
    /\ IF raceOpen(procs[id])
       THEN LET score == calculateScore(result.checks)
                analysisData ==
                    [checks |-> result.checks,
                     cwv |-> IF result.context.cwv # None
                             THEN result.context.cwv
                             ELSE Some([source |-> "lab"]),
                     warnings |-> score.warnings]
                url == getTask(tasks, id)[1].requested_url
            IN /\ tasks' = updateTaskStatus(tasks, "done",
                               Some(result.context.finalUrl),
                               Some(score.overallScore), Some(score.grade),
                               Some(JSONstringify(analysisData)), None, id, now)
               /\ analysis_cache' = insertCache(analysis_cache, hashUrl(url),
                                                url, id, now)
               /\ runningTasks' = runningTasks \ {id}
               /\ procs' = [procs EXCEPT ![id].analysis = "resolved",
                                         ![id].value = Some(result),
                                         ![id].pc = "finished"]
       ELSE /\ procs' = [procs EXCEPT ![id].analysis = "resolved",
                                      ![id].value = Some(result)]
            /\ UNCHANGED <<tasks, analysis_cache, runningTasks>>
    /\ UNCHANGED <<rate_limits, now, nextId, calls, passed, analyzer>>

raceRejected_Late(p, error) ==
    [p EXCEPT !.pc = "rejected", !.error = Some(error)]

raceRejected_NoTimer(p, error) ==
    IF raceOpen(p) /\ error.message # Some(ERR_TIMEOUT)
    THEN [p EXCEPT !.pc = "rejected", !.error = Some(error)]
    ELSE p

\* the race rejects with error: finally runs, processTask's promise rejects
raceRejected(p, error) ==
    IF raceOpen(p) THEN [p EXCEPT !.pc = "rejected", !.error = Some(error)]
    ELSE p

AnalysisReject_KeepsId(id, error) ==
    /\ id \in DOMAIN procs
    /\ procs[id].analysis = "pending"
    /\ procs' = [procs EXCEPT ![id] =
           [raceRejected(procs[id], error) EXCEPT !.analysis = "rejected"]]
    /\ UNCHANGED <<tasks, rate_limits, analysis_cache, runningTasks, now,
                   nextId, calls, passed, analyzer>>

\* the analysis rejects; if it wins the race the finally block runs
AnalysisReject(id, error) ==
    /\ id \in DOMAIN procs
    /\ procs[id].analysis = "pending"
    /\ procs' = [procs EXCEPT ![id] =
           [raceRejected(procs[id], error) EXCEPT !.analysis = "rejected"]]
    /\ runningTasks' = IF raceOpen(procs[id]) THEN runningTasks \ {id}
                       ELSE runningTasks
    /\ UNCHANGED <<tasks, rate_limits, analysis_cache, now, nextId, calls,
                   passed, analyzer>>

TimerFire_Waits(id) ==
    /\ id \in DOMAIN procs
    /\ procs[id].timer = "armed"
    /\ procs' = [procs EXCEPT ![id].timer = "fired"]
    /\ UNCHANGED <<tasks, rate_limits, analysis_cache, runningTasks, now,
                   nextId, calls, passed, analyzer>>

\* setTimeout fires after maxAnalysisSeconds
TimerFire(id) ==
    /\ id \in DOMAIN procs
    /\ procs[id].timer = "armed"
    /\ procs' = [procs EXCEPT ![id] =
           [raceRejected(procs[id], NewError(ERR_TIMEOUT))
               EXCEPT !.timer = "fired"]]
    /\ runningTasks' = IF raceOpen(procs[id]) THEN runningTasks \ {id}
                       ELSE runningTasks
    /\ UNCHANGED <<tasks, rate_limits, analysis_cache, now, nextId, calls,
                   passed, analyzer>>

failedStatus_Unrecorded == "running"

\* the status the .catch handler writes
failedStatus == "failed"

CatchHandler_Caches(id) ==
    /\ id \in DOMAIN procs
    /\ procs[id].pc = "rejected"
    /\ tasks' = updateTaskStatus(tasks, failedStatus, None, None, None, None,
                                 procs[id].error[1].message, id, now)
    /\ analysis_cache' =
           insertCache(analysis_cache,
                       hashUrl(getTask(tasks, id)[1].requested_url),
                       getTask(tasks, id)[1].requested_url, id, now)
    /\ procs' = [procs EXCEPT ![id].pc = "finished"]
    /\ UNCHANGED <<rate_limits, runningTasks, now, nextId, calls, passed,
                   analyzer>>

\* .catch(error => updateTaskStatus('failed', ..., error.message, taskId))
CatchHandler(id) ==
    /\ id \in DOMAIN procs
    /\ procs[id].pc = "rejected"
    /\ tasks' = updateTaskStatus(tasks, failedStatus, None, None, None, None,
                                 procs[id].error[1].message, id, now)
    /\ procs' = [procs EXCEPT ![id].pc = "finished"]
    /\ UNCHANGED <<rate_limits, analysis_cache, runningTasks, now, nextId,
                   calls, passed, analyzer>>

(* The background dispatch of createTask (task-manager.ts 39-50) invoked   *)
(* once more for a task that exists: processTask(taskId, ...).catch(...).  *)
(* While the id is in the running set the invocation returns at its guard; *)
(* otherwise it runs as the first one did.  It is taken when no .catch     *)
(* handler of an earlier invocation is waiting to run.                     *)
Dispatch(id) ==
    /\ id \in DOMAIN procs
    /\ procs[id].pc # "rejected"
    /\ LET started == processTaskStart(tasks, runningTasks, id, now)
       IN /\ tasks' = started.tasks
          /\ runningTasks' = started.running
          /\ procs' = IF id \in runningTasks THEN procs
                      ELSE [procs EXCEPT ![id] = started.proc]
          /\ analyzer' = IF id \in runningTasks THEN analyzer
                         ELSE analyzeStart(analyzer, id)
    /\ UNCHANGED <<rate_limits, analysis_cache, now, nextId, calls, passed>>

Fetched(taskId, task) == [kind |-> "task", value |-> task, taskId |-> taskId]

GetTask_Touches(c, taskId) ==
    /\ calls[c].pc = "idle"
    /\ calls' = [calls EXCEPT ![c] =
           [IdleCall EXCEPT
              !.result = Some(Fetched(taskId,
                                      TaskManager_getTask(tasks, taskId)))]]
    /\ tasks' = updateTaskStatus(tasks, "running", None, None, None, None,
                                 None, taskId, now)
    /\ UNCHANGED <<rate_limits, analysis_cache, runningTasks, now, nextId,
                   procs, passed, analyzer>>

(* GET /api/result/[taskId] (route.ts 35-42): a call of getTask; the call  *)
(* keeps what it was given back.                                           *)
GetTask(c, taskId) ==
    /\ calls[c].pc = "idle"
    /\ calls' = [calls EXCEPT ![c] =
           [IdleCall EXCEPT
              !.result = Some(Fetched(taskId,
                                      TaskManager_getTask(tasks, taskId)))]]
    /\ UNCHANGED <<tasks, rate_limits, analysis_cache, runningTasks, now,
                   nextId, procs, passed, analyzer>>

-----------------------------------------------------------------------------
(* The analyzer's step after the launch (database.ts 206-211, 216-218):    *)
(* chromium.launch of the analyze call of id resolves, initialize assigns  *)
(* this.browser, and analyze goes on to crawlAndRender.                    *)
LaunchDone(id) ==
    /\ id \in DOMAIN analyzer.at
    /\ analyzer.at[id] = "launching"
    /\ analyzer' = initializeDone(analyzer, id)
    /\ UNCHANGED <<tasks, rate_limits, analysis_cache, runningTasks, now,
                   nextId, calls, procs, passed>>

-----------------------------------------------------------------------------
(* The environment: time passes; cleanup runs (database.ts 175-191).       *)

Tick(d, maxNow) ==
    /\ now < maxNow
    /\ now' = now + d
    /\ UNCHANGED <<tasks, rate_limits, analysis_cache, runningTasks, nextId,
                   calls, procs, passed, analyzer>>

Cleanup ==
    /\ rate_limits' = cleanupRateLimits(rate_limits, now)
    /\ tasks' = cleanupTasks(tasks, now)
    /\ analysis_cache' = cleanupCache(analysis_cache, now)
    /\ UNCHANGED <<runningTasks, now, nextId, calls, procs, passed, analyzer>>

-----------------------------------------------------------------------------
(* Spec: the task lifecycle.  Submissions of one client run concurrently   *)
(* with the analyses of the tasks they created; the client stops           *)
(* submitting in an hour once MaxCount of its calls passed the check.      *)

Init == InitWith(Callers)

Submit ==
    \E c \in Callers, url \in UrlsOnePage, ip \in {PrimaryClient} :
        /\ currentCount(rate_limits, ip, now) < MaxCount
        /\ CreateTaskStart(c, url, ip)

Lookup == \E c \in Callers : CreateTaskCache(c, MaxTasks)
Resolve == \E id \in DOMAIN procs : AnalysisResolve(id, ResultGood)
Reject == \E id \in DOMAIN procs, e \in AnalysisFaults : AnalysisReject(id, e)
Timeout == \E id \in DOMAIN procs : TimerFire(id)
Catch == \E id \in DOMAIN procs : CatchHandler(id)
Clock == Tick(1, MaxNow)

Next ==
    \/ Submit
    \/ Lookup
    \/ Resolve
    \/ Reject
    \/ Timeout
    \/ Catch
    \/ Clock

Spec == Init /\ [][Next]_vars

-----------------------------------------------------------------------------
(* SpecRate: the quota of one client.  Two createTask calls of the        *)
(* primary client may be in flight together.  The client bursts in the    *)
(* first hour window until it is refused, and in a later window at most   *)
(* MaxOther of its calls pass.  Analyses only succeed here, so that later *)
(* calls are answered from the cache.                                      *)

InitRate == InitWith(CallersRate)

SubmitRate ==
    \E c \in CallersRate, url \in {UrlA, UrlBare}, ip \in {PrimaryClient} :
        /\ \/ hourKey(now) = 0
           \/ currentCount(rate_limits, ip, now) < MaxOther
        /\ CreateTaskStart(c, url, ip)

LookupRate == \E c \in CallersRate : CreateTaskCache(c, MaxTasks)

NextRate ==
    \/ SubmitRate
    \/ LookupRate
    \/ Resolve
    \/ Clock

SpecRate == InitRate /\ [][NextRate]_vars

-----------------------------------------------------------------------------
(* SpecSweep: the quota of one client with cleanup (database.ts 175-191)   *)
(* run at any moment.  One call is in flight at a time.  Besides the       *)
(* clock's ticks the time may leap two hours ahead once, so that a cleanup *)
(* finds records older than two hours.  Before the leap at most MaxOther   *)
(* calls of the client pass in an hour window; after it the client bursts  *)
(* until it is refused.                                                    *)

SubmitSweep ==
    \E c \in Callers, url \in {UrlA}, ip \in {PrimaryClient} :
        /\ \/ hourKey(now) >= 2
           \/ currentCount(rate_limits, ip, now) < MaxOther
        /\ CreateTaskStart(c, url, ip)

Leap == Tick(TwoHours, MaxNow)

Sweep == Cleanup

NextSweep ==
    \/ SubmitSweep
    \/ Lookup
    \/ Resolve
    \/ Clock
    \/ Leap
    \/ Sweep

SpecSweep == Init /\ [][NextSweep]_vars

-----------------------------------------------------------------------------
(* SpecClients: the quota of two clients.  One createTask call is in      *)
(* flight at a time.  The primary client bursts as in SpecRate; of the    *)
(* other client at most MaxOther calls pass, in the first hour window.    *)

SubmitClients ==
    \E c \in Callers, url \in {UrlA, UrlBare}, ip \in Clients :
        /\ \/ hourKey(now) = 0 /\ ip = PrimaryClient
           \/ hourKey(now) = 0 /\ currentCount(rate_limits, ip, now) < MaxOther
           \/ ip = PrimaryClient /\ currentCount(rate_limits, ip, now) < MaxOther
        /\ CreateTaskStart(c, url, ip)

NextClients ==
    \/ SubmitClients
    \/ Lookup
    \/ Resolve
    \/ Clock

SpecClients == Init /\ [][NextClients]_vars

-----------------------------------------------------------------------------
(* SpecLive: Spec with the scheduling the runtime gives.  A timer that is  *)
(* armed fires, and a rejected processTask promise runs its .catch         *)
(* handler.  Nothing makes an analysis settle.                             *)

SpecLive ==
    /\ Spec
    /\ \A id \in 1..MaxTasks : WF_vars(TimerFire(id))
    /\ \A id \in 1..MaxTasks : WF_vars(CatchHandler(id))

-----------------------------------------------------------------------------
(* SpecDup: Spec with repeated submissions of one page.  One more task   *)
(* record than in Spec may be created, and the page is submitted under    *)
(* both spellings of its URL.                                              *)

SubmitDup ==
    \E c \in Callers, url \in UrlsTwoSpellings, ip \in {PrimaryClient} :
        /\ currentCount(rate_limits, ip, now) < MaxCount
        /\ CreateTaskStart(c, url, ip)

LookupDup == \E c \in Callers : CreateTaskCache(c, MaxTasks + 1)

NextDup ==
    \/ SubmitDup
    \/ LookupDup
    \/ Resolve
    \/ Reject
    \/ Timeout
    \/ Catch
    \/ Clock

SpecDup == Init /\ [][NextDup]_vars

-----------------------------------------------------------------------------
(* SpecPair: two tasks of one page whose executions interleave.  The page  *)
(* is submitted under one spelling; a second task is created while the     *)
(* first is running or after its cache entry went stale.  An analysis      *)
(* succeeds or fails with an error.                                        *)

SubmitPair ==
    \E c \in Callers, url \in {UrlA}, ip \in {PrimaryClient} :
        /\ currentCount(rate_limits, ip, now) < MaxCount
        /\ CreateTaskStart(c, url, ip)

RejectLoad ==
    \E id \in DOMAIN procs : AnalysisReject(id, NewError(ERR_LOAD))

NextPair ==
    \/ SubmitPair
    \/ LookupDup
    \/ Resolve
    \/ RejectLoad
    \/ Catch
    \/ Clock

SpecPair == Init /\ [][NextPair]_vars

-----------------------------------------------------------------------------
(* SpecPurge: SpecPair with cleanup (database.ts 175-191) run at any       *)
(* moment.  The time stands still but for one leap ahead, by more than a   *)
(* day or by seven days, so that a cleanup finds failed tasks older than a *)
(* day and cache entries older than seven days.                            *)

LeapDays == \E d \in {OneDay + 1, SevenDays} : Tick(d, MaxNow)

NextPurge ==
    \/ SubmitPair
    \/ LookupDup
    \/ Resolve
    \/ RejectLoad
    \/ Catch
    \/ LeapDays
    \/ Sweep

SpecPurge == Init /\ [][NextPurge]_vars

-----------------------------------------------------------------------------
(* SpecBrowser: two pages submitted one after the other to one             *)
(* TaskManager, whose analyzer has no browser yet.  The launches are steps *)
(* of their own; an analysis resolves once its call reached                *)
(* crawlAndRender.                                                         *)

SubmitBrowser ==
    \E c \in Callers, url \in {UrlA, UrlB}, ip \in {PrimaryClient} :
        /\ currentCount(rate_limits, ip, now) < MaxCount
        /\ CreateTaskStart(c, url, ip)

Launched == \E id \in DOMAIN procs : LaunchDone(id)

ResolveCrawled ==
    \E id \in DOMAIN procs :
        /\ analyzer.at[id] = "crawling"
        /\ AnalysisResolve(id, ResultGood)

NextBrowser ==
    \/ SubmitBrowser
    \/ LookupDup
    \/ Launched
    \/ ResolveCrawled

SpecBrowser == Init /\ [][NextBrowser]_vars

-----------------------------------------------------------------------------
(* SpecRecent: the submissions of SpecDup with analyses that succeed, so   *)
(* that several tasks of one page reach done one after the other.          *)

NextRecent ==
    \/ SubmitDup
    \/ LookupDup
    \/ Resolve
    \/ Clock

SpecRecent == Init /\ [][NextRecent]_vars

-----------------------------------------------------------------------------
(* SpecAgain: Spec in which the background dispatch may be invoked again   *)
(* for a task that was created.                                            *)

Redispatch == \E id \in DOMAIN procs : Dispatch(id)

NextAgain ==
    \/ Submit
    \/ Lookup
    \/ Resolve
    \/ Reject
    \/ Timeout
    \/ Catch
    \/ Clock
    \/ Redispatch

SpecAgain == Init /\ [][NextAgain]_vars

-----------------------------------------------------------------------------
(* SpecRerun: the executions of SpecAgain within one hour: every outcome   *)
(* of an execution, and the dispatch invoked again while it runs and after *)
(* it ended.                                                               *)

NextRerun ==
    \/ Submit
    \/ Lookup
    \/ Resolve
    \/ Reject
    \/ Timeout
    \/ Catch
    \/ Redispatch

SpecRerun == Init /\ [][NextRerun]_vars

-----------------------------------------------------------------------------
(* SpecLookup: dbOperations.getCachedAnalysis as a function of the store.  *)
(* The store holds, for each of MaxTasks ids, no record (the task was     *)
(* deleted) or a record in any status, and for each of two fingerprints   *)
(* at most one cache entry, of any age up to MaxNow, for any of the ids.  *)
(* A caller past the quota check makes the lookup and keeps its result.   *)

Statuses == {"queued", "running", "done", "failed"}

StoredTask(id, status) ==
    [insertTask(<<>>, id, "queued", UrlA, PrimaryClient, UserAgent, 0)[1]
        EXCEPT !.status = status]

StoredTasks ==
    {LET present(t) == t.status \in Statuses
     IN SelectSeq([id \in 1..MaxTasks |-> StoredTask(id, f[id])], present) :
        f \in [1..MaxTasks -> Statuses \cup {"deleted"}]}

CacheEntries(url, t) ==
    {insertCache(<<>>, hashUrl(url), url, id, at)[1] :
        id \in 1..MaxTasks, at \in 0..t}

StoredCaches(t) ==
    {<<>>}
    \cup {<<e>> : e \in CacheEntries(UrlA, t) \cup CacheEntries(UrlAUpper, t)}
    \cup {<<e1, e2>> : e1 \in CacheEntries(UrlA, t),
                       e2 \in CacheEntries(UrlAUpper, t)}
    \cup {<<e2, e1>> : e1 \in CacheEntries(UrlA, t),
                       e2 \in CacheEntries(UrlAUpper, t)}

InitLookup ==
    /\ now \in 0..MaxNow
    /\ tasks \in StoredTasks
    /\ analysis_cache \in StoredCaches(now)
    /\ rate_limits = <<>>
    /\ runningTasks = {}
    /\ nextId = MaxTasks + 1
    /\ \E url \in UrlsTwoSpellings :
          calls = [c \in Callers |->
                     [pc |-> "awaitRateLimit", url |-> Some(url),
                      ip |-> Some(PrimaryClient), result |-> None]]
    /\ procs = <<>>
    /\ passed = <<>>
    /\ analyzer = NewAnalyzer

\* the result of the lookup: null, or { task_id }
Looked(cachedTask) == [kind |-> "cachedTask", value |-> cachedTask]

\* const cachedTask = dbOperations.getCachedAnalysis(urlHash)
GetCachedAnalysis(c) ==
    /\ calls[c].pc = "awaitRateLimit"
    /\ LET urlHash == hashUrl(calls[c].url[1])
           cachedTask == getCachedAnalysis(analysis_cache, tasks, urlHash, now)
       IN calls' = [calls EXCEPT ![c].pc = "idle",
                                 ![c].result = Some(Looked(cachedTask))]
    /\ UNCHANGED <<tasks, rate_limits, analysis_cache, runningTasks, now,
                   nextId, procs, passed, analyzer>>

NextLookup == \E c \in Callers : GetCachedAnalysis(c)

SpecLookup == InitLookup /\ [][NextLookup]_vars

-----------------------------------------------------------------------------
(* SpecRead: the lifecycle of Spec within one clock tick, with every       *)
(* result the analysis can resolve with, and the client reading results.   *)
(* A read asks for an id that was handed out or for one that was not:      *)
(* MaxTasks + 1 is never the id of a task.                                 *)

ReadIds == 1..(MaxTasks + 1)

ResolveAny ==
    \E id \in DOMAIN procs, result \in AnalysisResults :
        AnalysisResolve(id, result)

Read == \E c \in Callers, taskId \in ReadIds : GetTask(c, taskId)

NextRead ==
    \/ Submit
    \/ Lookup
    \/ ResolveAny
    \/ Reject
    \/ Timeout
    \/ Catch
    \/ Read

SpecRead == Init /\ [][NextRead]_vars

-----------------------------------------------------------------------------
(* SpecScore: calculateScore as a function of its parameter, a list of     *)
(* SEOCheckGroup.  A task is running and its analysis is about to resolve  *)
(* with check groups drawn from the lists below; the step is the success   *)
(* path of processTask, which scores them and stores the outcome.  The     *)
(* lists range over the parameter's type: besides groups as the analyzer   *)
(* builds them (score = sum of the items' scores) there are groups without *)
(* items, groups whose items weigh nothing and groups whose score is not   *)
(* the sum of their items' scores.                                         *)

MaxGroups == 2

GroupKinds ==
    {[group |-> "technical", weight |-> 30], [group |-> "social", weight |-> 10]}

GroupScores == {0, 4, 30}

ItemLists ==
    { << >>,
      << Item(30, 30, "ok", "high") >>,
      << Item(10, 4, "fix title", "high"), Item(10, 0, "fix X", "high") >>,
      << Item(10, 0, "fix X", "high"), Item(10, 4, "add alt text", "low") >>,
      << Item(0, 0, "not measured", "high") >> }

Groups ==
    {[group |-> k.group, weight |-> k.weight, score |-> sc, items |-> items] :
        k \in GroupKinds, sc \in GroupScores, items \in ItemLists}

\* one group of weight 100 whose only item weighs 100: the overall score is
\* the group's score, which takes the values around the grade thresholds
ThresholdScores == {59, 60, 69, 70, 79, 80, 89, 90}

ThresholdLists ==
    {<< [group |-> "content", weight |-> 100, score |-> sc,
         items |-> << Item(100, sc, "improve", "high") >>] >> :
        sc \in ThresholdScores}

\* one group of weight 100 whose only item scores 0 of 10
ChecksFixX ==
    << [group |-> "content", weight |-> 100, score |-> 0,
        items |-> << Item(10, 0, "fix X", "high") >>] >>

ScoreInputs ==
    UNION {[1..n -> Groups] : n \in 0..MaxGroups}
    \cup ThresholdLists \cup {ChecksFixX}

ResultWith(checks) ==
    [context |-> [finalUrl |-> "https://a.example/", cwv |-> None],
     checks |-> checks]

InitScore ==
    /\ \E checks \in ScoreInputs :
          procs = (1 :> [NewProc EXCEPT !.value = Some(ResultWith(checks))])
    /\ tasks = processTaskStart(
                  insertTask(<<>>, 1, "queued", UrlA, PrimaryClient,
                             UserAgent, 0),
                  {}, 1, 0).tasks
    /\ rate_limits = <<>>
    /\ analysis_cache = <<>>
    /\ runningTasks = {1}
    /\ now = 0
    /\ nextId = 2
    /\ calls = [c \in Callers |-> AfterDispatch(1)]
    /\ passed = <<>>
    /\ analyzer = analyzeStart(NewAnalyzer, 1)

\* the analysis resolves with the value it holds and processTask goes on
ScoreResolved ==
    \E id \in DOMAIN procs : AnalysisResolve(id, procs[id].value[1])

NextScore == ScoreResolved

SpecScore == InitScore /\ [][NextScore]_vars

-----------------------------------------------------------------------------
(* Reading the state *)

TaskIds(ts) == {ts[i].id : i \in 1..Len(ts)}
statusOf(ts, id) == getTask(ts, id)[1].status
Terminal(status) == status \in {"done", "failed"}

-----------------------------------------------------------------------------
(* C1.  For every task id the stored status only moves forward: once it is *)
(* done or failed no step changes it, and a running task never goes back   *)
(* to queued.                                                              *)
C1_Step ==
    \A id \in TaskIds(tasks) \cap TaskIds(tasks') :
        /\ Terminal(statusOf(tasks, id))
              => statusOf(tasks', id) = statusOf(tasks, id)
        /\ statusOf(tasks, id) = "running" => statusOf(tasks', id) # "queued"

C1_StatusForwardOnly == [][C1_Step]_vars

\* a task failed by its timeout whose analysis resolved afterwards
C1_Witness ==
    \E id \in TaskIds(tasks) :
        /\ statusOf(tasks, id) = "failed"
        /\ procs[id].timer = "fired"
        /\ procs[id].analysis = "resolved"

(* C2.  Every task that was created reaches done or failed.                *)
C2_EveryTaskEnds ==
    \A id \in 1..MaxTasks :
        (id \in TaskIds(tasks))
            ~> (id \in TaskIds(tasks) /\ Terminal(statusOf(tasks, id)))

\* a task failed by its timeout whose analysis never settled
C2_Witness ==
    \E id \in TaskIds(tasks) :
        /\ statusOf(tasks, id) = "failed"
        /\ procs[id].analysis = "pending"

-----------------------------------------------------------------------------
(* Statements about createTask, in the terms of a caller *)

\* the URL is absolute with scheme http or https
AbsoluteHttp(url) ==
    url.scheme # "" /\ LowerScheme(url.scheme) \in {"http", "https"}

\* calls that passed the quota check for client ip in hour window h
PassedCount(ip, h) ==
    IF <<ip, h>> \in DOMAIN passed THEN passed[<<ip, h>>] ELSE 0

Live(status) == status \in {"queued", "running"}

StoreUnchanged ==
    UNCHANGED <<tasks, rate_limits, analysis_cache, runningTasks, procs,
                nextId, passed>>

(* C3.  For any URL, no two tasks for that URL are queued or running at    *)
(* the same time.                                                          *)
C3_OneLivePerUrl ==
    \A i, j \in 1..Len(tasks) :
        (i # j /\ tasks[i].requested_url = tasks[j].requested_url)
            => ~(Live(tasks[i].status) /\ Live(tasks[j].status))

(* C4.  A createTask for a URL that has done tasks younger than the        *)
(* freshness TTL creates no task record and returns the id of the first    *)
(* of them.                                                                *)
FreshDone(url) ==
    {i \in 1..Len(tasks) :
        /\ tasks[i].requested_url = url
        /\ tasks[i].status = "done"
        /\ tasks[i].completed_at[1] > now - OneHour}

C4_Step ==
    \A c \in DOMAIN calls :
        (calls[c].pc = "awaitRateLimit" /\ calls'[c].pc = "idle"
         /\ FreshDone(calls[c].url[1]) # {})
        => LET fresh == FreshDone(calls[c].url[1])
               first == CHOOSE i \in fresh : \A j \in fresh : i <= j
           IN /\ tasks' = tasks
              /\ calls'[c].result = Some(Returned(tasks[first].id))

C4_SameIdAsFirst == [][C4_Step]_vars

(* C5.  After rateLimit calls of a client passed in an hour window its     *)
(* next call in that window is refused as rate-limited, and its first      *)
(* call in an hour window passes.                                          *)
C5_Step ==
    \A c \in DOMAIN calls, url \in UrlInputs, ip \in Clients :
        (CreateTaskStart(c, url, ip) /\ AbsoluteHttp(url))
        => /\ PassedCount(ip, hourKey(now)) = rateLimit
                => calls'[c].result = Some(Thrown(ERR_RATE_LIMIT))
           /\ PassedCount(ip, hourKey(now)) = 0
                => /\ calls'[c].pc = "awaitRateLimit"
                   /\ PassedCount(ip, hourKey(now))' = 1

C5_LimitPerWindow == [][C5_Step]_vars

\* the primary client was refused in window 0 and passes again in window 1
C5_Witness ==
    /\ PassedCount(PrimaryClient, 0) = rateLimit
    /\ \E c \in DOMAIN calls : calls[c].result = Some(Thrown(ERR_RATE_LIMIT))
    /\ hourKey(now) = 1
    /\ \E c \in DOMAIN calls :
          calls[c].pc = "awaitRateLimit" /\ calls[c].ip = Some(PrimaryClient)

(* C6.  The stored count of a client's current hour window is the number   *)
(* of its calls that passed the quota check in that window, and no more    *)
(* than rateLimit calls pass in a window.                                  *)
C6_NoLostUpdates ==
    /\ \A ip \in Clients :
          currentCount(rate_limits, ip, now) = PassedCount(ip, hourKey(now))
    /\ \A key \in DOMAIN passed : passed[key] <= rateLimit

\* two calls of one client are suspended after the check, at the limit
C6_Witness ==
    /\ \A c \in DOMAIN calls :
          calls[c].pc = "awaitRateLimit" /\ calls[c].ip = Some(PrimaryClient)
    /\ Cardinality(DOMAIN calls) >= 2
    /\ currentCount(rate_limits, PrimaryClient, now) = rateLimit

(* C7.  A call refused as rate-limited changes no counter, no task, no     *)
(* cache entry; a call at or over the limit is refused; and no stored      *)
(* count exceeds rateLimit.                                                *)
C7_Step ==
    /\ \A c \in DOMAIN calls :
          (calls'[c] # calls[c]
           /\ calls'[c].result = Some(Thrown(ERR_RATE_LIMIT)))
          => StoreUnchanged
    /\ \A c \in DOMAIN calls, url \in UrlInputs, ip \in Clients :
          (CreateTaskStart(c, url, ip) /\ AbsoluteHttp(url)
           /\ currentCount(rate_limits, ip, now) >= rateLimit)
          => calls'[c].result = Some(Thrown(ERR_RATE_LIMIT))
    /\ \A i \in 1..Len(rate_limits') :
          rate_limits'[i].request_count <= rateLimit

C7_DeniedLeavesCounter == [][C7_Step]_vars

\* a call was refused while the stored count stands at the limit
C7_Witness ==
    /\ \E c \in DOMAIN calls : calls[c].result = Some(Thrown(ERR_RATE_LIMIT))
    /\ currentCount(rate_limits, PrimaryClient, now) = rateLimit

(* C8.  At most 5 calls of a client pass the quota check per hour window.  *)
C8_FivePerHour ==
    \A key \in DOMAIN passed : passed[key] <= RATE_LIMIT_DEFAULT

(* C9.  createTask on a URL that is not absolute http or https throws the  *)
(* invalid-input error and changes nothing in the store.                   *)
C9_Step ==
    \A c \in DOMAIN calls, url \in UrlInputs, ip \in Clients :
        (CreateTaskStart(c, url, ip) /\ ~AbsoluteHttp(url))
        => /\ calls'[c].pc = "idle"
           /\ calls'[c].result = Some(Thrown(ERR_INVALID_URL))
           /\ StoreUnchanged

C9_InvalidUrlFirst == [][C9_Step]_vars

\* an invalid URL was refused after a call had passed the quota check
C9_Witness ==
    /\ \E c \in DOMAIN calls : calls[c].result = Some(Thrown(ERR_INVALID_URL))
    /\ rate_limits # <<>>

(* C10 as stated.  Every call of a client under its quota increments the   *)
(* client's counter, whatever the URL.                                     *)
C10_Original_Step ==
    \A c \in DOMAIN calls, url \in UrlInputs, ip \in Clients :
        (CreateTaskStart(c, url, ip)
         /\ currentCount(rate_limits, ip, now) < rateLimit)
        => currentCount(rate_limits', ip, now)
             = currentCount(rate_limits, ip, now) + 1

C10_CountsEveryAttempt == [][C10_Original_Step]_vars

(* C10 as amended.  A call of a client under its quota increments the      *)
(* client's counter by one if its URL is valid, and leaves every counter   *)
(* as it is if its URL is invalid.                                         *)
C10_Amended_Step ==
    \A c \in DOMAIN calls, url \in UrlInputs, ip \in Clients :
        (CreateTaskStart(c, url, ip)
         /\ currentCount(rate_limits, ip, now) < rateLimit)
        => IF AbsoluteHttp(url)
           THEN currentCount(rate_limits', ip, now)
                  = currentCount(rate_limits, ip, now) + 1
           ELSE rate_limits' = rate_limits

C10_CountsValidAttempts == [][C10_Amended_Step]_vars

\* one call was refused for its URL with no counter written, another
\* passed the check and its client's counter stands at 1
C10_Witness ==
    /\ \E c \in DOMAIN calls : calls[c].result = Some(Thrown(ERR_INVALID_URL))
    /\ \E c \in DOMAIN calls :
          /\ calls[c].pc = "awaitRateLimit"
          /\ currentCount(rate_limits, calls[c].ip[1], now) = 1
    /\ Len(rate_limits) = 1

-----------------------------------------------------------------------------
(* C11.  createTask does not wait for the analysis: a call is suspended    *)
(* only at the await of checkRateLimit, and the run that inserts the task  *)
(* record returns the new id while the analysis of that task is pending.   *)
C11_Step ==
    /\ \A c \in DOMAIN calls : calls'[c].pc \in {"idle", "awaitRateLimit"}
    /\ \A c \in DOMAIN calls :
          (calls[c].pc = "awaitRateLimit" /\ Len(tasks') = Len(tasks) + 1)
          => LET id == tasks'[Len(tasks')].id
             IN /\ calls'[c].pc = "idle"
                /\ calls'[c].result = Some(Returned(id))
                /\ procs'[id].analysis = "pending"

C11_ReturnsBeforeAnalysis == [][C11_Step]_vars

\* createTask has returned the id of a task that failed by its timeout
\* and whose analysis still has not settled
C11_Witness ==
    \E c \in DOMAIN calls, id \in DOMAIN procs :
        /\ calls[c].result = Some(Returned(id))
        /\ procs[id].analysis = "pending"
        /\ procs[id].timer = "fired"
        /\ statusOf(tasks, id) = "failed"

(* C12.  A failure of processTask reaches no caller of createTask: a call  *)
(* throws only in its own first run, with the invalid-URL or the quota     *)
(* error, and the steps in which the race rejects and the .catch handler   *)
(* runs leave every call as it is.  The handler records the failure on     *)
(* the task: status failed, with the message of the failure if it has one. *)
C12_Step ==
    /\ \A c \in DOMAIN calls :
          (calls'[c] # calls[c] /\ calls'[c].result # None
           /\ calls'[c].result[1].kind = "thrown")
          => /\ calls[c].pc = "idle"
             /\ calls'[c].result[1].value \in {ERR_INVALID_URL, ERR_RATE_LIMIT}
             /\ UNCHANGED <<tasks, procs>>
    /\ \A id \in DOMAIN procs :
          (procs[id].pc = "racing" /\ procs'[id].pc = "rejected")
          => UNCHANGED calls
    /\ \A id \in DOMAIN procs :
          (procs[id].pc = "rejected" /\ procs'[id].pc = "finished")
          => LET message == procs[id].error[1].message
             IN /\ UNCHANGED calls
                /\ statusOf(tasks', id) = "failed"
                /\ Truthy(message)
                      => getTask(tasks', id)[1].error_message = message

C12_FailuresStayOnTask == [][C12_Step]_vars

\* createTask returned the id of a task whose analysis then rejected; the
\* call still holds the id and the task is failed with the message
C12_Witness ==
    \E c \in DOMAIN calls, id \in DOMAIN procs :
        /\ calls[c].result = Some(Returned(id))
        /\ procs[id].analysis = "rejected"
        /\ procs[id].pc = "finished"
        /\ statusOf(tasks, id) = "failed"
        /\ getTask(tasks, id)[1].error_message = Some(ERR_LOAD)

(* C13.  When the timer fires while the analysis has not settled, the      *)
(* race rejects at once with the timeout error, whatever the analysis      *)
(* does; and the task then becomes failed with the timeout message.        *)
TimedOut(id) ==
    /\ id \in DOMAIN procs
    /\ procs[id].pc = "rejected"
    /\ procs[id].timer = "fired"
    /\ procs[id].error = Some(NewError(ERR_TIMEOUT))

FailedByTimeout(id) ==
    /\ id \in TaskIds(tasks)
    /\ statusOf(tasks, id) = "failed"
    /\ getTask(tasks, id)[1].error_message = Some(ERR_TIMEOUT)

C13_Step ==
    \A id \in DOMAIN procs :
        (procs[id].timer = "armed" /\ procs'[id].timer = "fired"
         /\ procs[id].analysis = "pending" /\ procs[id].pc = "racing")
        => /\ procs'[id].pc = "rejected"
           /\ procs'[id].error = Some(NewError(ERR_TIMEOUT))
           /\ procs'[id].analysis = "pending"

C13_TimeoutFails ==
    /\ [][C13_Step]_vars
    /\ \A id \in 1..MaxTasks : TimedOut(id) ~> FailedByTimeout(id)

\* a task is failed with the timeout message while its analysis is still
\* pending
C13_Witness ==
    \E id \in DOMAIN procs :
        FailedByTimeout(id) /\ procs[id].analysis = "pending"

(* C14.  Once a task is failed by its timeout, its analysis is no longer   *)
(* in flight (the analysis holds its browser page until it settles).       *)
C14_TimeoutCancels ==
    \A id \in DOMAIN procs :
        FailedByTimeout(id) => procs[id].analysis # "pending"

(* C15.  For a task that exists, no step starts its analysis again and no  *)
(* step writes its status to running again, however often and whenever     *)
(* its dispatch is invoked.                                                *)
C15_Step ==
    \A id \in TaskIds(tasks) \cap TaskIds(tasks') :
        /\ ~(procs[id].analysis # "pending" /\ procs'[id].analysis = "pending")
        /\ ~(statusOf(tasks, id) # "running"
             /\ statusOf(tasks', id) = "running")

C15_OneExecutionPath == [][C15_Step]_vars

(* C16.  Every failed task carries a non-empty error message.              *)
C16_FailedHasMessage ==
    \A i \in 1..Len(tasks) :
        tasks[i].status = "failed"
            => tasks[i].error_message \notin {None, Some("")}

(* C17.  A task has a score, a grade or analysis data (checks, warnings)   *)
(* only if it is done, a final URL only if it is done (its analysis        *)
(* succeeded), and an error message only if it is failed.                  *)
C17_FieldsMatchStatus ==
    \A i \in 1..Len(tasks) :
        /\ (tasks[i].overall_score # None \/ tasks[i].grade # None
            \/ tasks[i].analysis_data # None \/ tasks[i].final_url # None)
           => /\ tasks[i].status = "done"
              /\ procs[tasks[i].id].analysis = "resolved"
        /\ tasks[i].error_message # None => tasks[i].status = "failed"

\* a done task that has its result fields and no error message
C17_Witness ==
    \E i \in 1..Len(tasks) :
        /\ tasks[i].status = "done"
        /\ tasks[i].overall_score # None /\ tasks[i].grade # None
        /\ tasks[i].analysis_data # None /\ tasks[i].final_url # None
        /\ tasks[i].error_message = None

(* C18.  A queued or running task has no completed_at; a done or failed    *)
(* task has one.                                                           *)
C18_CompletedAtOnlyAtEnd ==
    \A i \in 1..Len(tasks) :
        /\ Live(tasks[i].status) => tasks[i].completed_at = None
        /\ Terminal(tasks[i].status) => tasks[i].completed_at # None

(* C19.  The cache lookup gives a task id only if the cache has an entry   *)
(* for the fingerprint that is younger than the TTL and whose task exists  *)
(* with status done, and then the id of that task; if no fresh entry       *)
(* references a done task (the task was deleted, or is not done) it gives  *)
(* null.                                                                   *)
FreshEntries(urlHash) ==
    {i \in 1..Len(analysis_cache) :
        /\ analysis_cache[i].url_hash = urlHash
        /\ now - analysis_cache[i].cached_at < OneHour}

DoneTask(id) ==
    \E j \in 1..Len(tasks) : tasks[j].id = id /\ tasks[j].status = "done"

C19_HitOnlyIfFreshAndDone ==
    \A c \in DOMAIN calls :
        (calls[c].result # None /\ calls[c].result[1].kind = "cachedTask")
        => LET fresh == FreshEntries(hashUrl(calls[c].url[1]))
               cachedTask == calls[c].result[1].value
           IN /\ cachedTask # None
                   => \E i \in fresh :
                         /\ DoneTask(analysis_cache[i].task_id)
                         /\ cachedTask[1].task_id = analysis_cache[i].task_id
              /\ (\A i \in fresh : ~DoneTask(analysis_cache[i].task_id))
                   => cachedTask = None

\* the lookup gave null for a fresh entry whose task record is gone
C19_Witness ==
    \E c \in DOMAIN calls :
        /\ calls[c].result = Some(Looked(None))
        /\ \E i \in FreshEntries(hashUrl(calls[c].url[1])) :
              analysis_cache[i].task_id \notin TaskIds(tasks)

(* C20.  A createTask for a URL whose cache entry is younger than 24 hours *)
(* and references a done task creates no task record and returns the id    *)
(* of that task.                                                           *)
C20_Step ==
    \A c \in DOMAIN calls :
        (calls[c].pc = "awaitRateLimit" /\ calls'[c].pc = "idle")
        => \A i \in 1..Len(analysis_cache) :
              (/\ analysis_cache[i].url_hash = hashUrl(calls[c].url[1])
               /\ now - analysis_cache[i].cached_at < OneDay
               /\ DoneTask(analysis_cache[i].task_id))
              => /\ tasks' = tasks
                 /\ calls'[c].result
                       = Some(Returned(analysis_cache[i].task_id))

C20_FreshForADay == [][C20_Step]_vars

-----------------------------------------------------------------------------
(* C21.  URLs that differ only by trailing whitespace or by the letter     *)
(* case of scheme and host are one page: a createTask for a URL, made      *)
(* while the cache has a fresh entry of a done task for a URL that is the  *)
(* same page, creates no task record and returns the id of that task.      *)
LowerHost(h) == IF h = "A.EXAMPLE" THEN "a.example" ELSE h

\* the URL with scheme and host in lower case and no trailing whitespace
Normalized(url) ==
    [scheme |-> LowerScheme(url.scheme), host |-> LowerHost(url.host),
     ws |-> ""]

C21_Step ==
    \A c \in DOMAIN calls :
        (calls[c].pc = "awaitRateLimit" /\ calls'[c].pc = "idle")
        => \A i \in 1..Len(analysis_cache) :
              (/\ Normalized(analysis_cache[i].url)
                    = Normalized(calls[c].url[1])
               /\ now - analysis_cache[i].cached_at < OneHour
               /\ DoneTask(analysis_cache[i].task_id))
              => /\ tasks' = tasks
                 /\ calls'[c].result
                       = Some(Returned(analysis_cache[i].task_id))

C21_OnePagePerFingerprint == [][C21_Step]_vars

-----------------------------------------------------------------------------
(* C22.  getTask is a read-only lookup: a call of it, for a known or an    *)
(* unknown id, changes no task record, rate-limit counter, cache entry or  *)
(* the running set, and for an id with no task record it returns null.     *)

\* the step is caller c's getTask: the call now holds what getTask gave
ReadStep(c) ==
    /\ calls[c].pc = "idle"
    /\ calls'[c] # calls[c]
    /\ calls'[c].result # None
    /\ calls'[c].result[1].kind = "task"

C22_Step ==
    \A c \in DOMAIN calls :
        ReadStep(c)
        => /\ UNCHANGED <<tasks, rate_limits, analysis_cache, runningTasks>>
           /\ calls'[c].result[1].taskId \notin TaskIds(tasks)
              => calls'[c].result[1].value = None

C22_ReadOnly == [][C22_Step]_vars

\* a read of an unknown id answered null, and a read of a known id answered
\* with its record, while a task exists
ReadOf(c) == calls[c].result[1]
IsRead(c) == calls[c].result # None /\ calls[c].result[1].kind = "task"

C22_Witness ==
    \E c \in DOMAIN calls :
        /\ IsRead(c)
        /\ ReadOf(c).taskId \notin TaskIds(tasks)
        /\ ReadOf(c).value = None
        /\ tasks # <<>>

C22_WitnessKnown ==
    \E c \in DOMAIN calls :
        /\ IsRead(c)
        /\ ReadOf(c).taskId \in TaskIds(tasks)
        /\ ReadOf(c).value # None

-----------------------------------------------------------------------------
(* C23.  Round trip: for every task that reached done, getTask returns     *)
(* checks, overallScore, grade and warnings identical to what the analysis *)
(* returned and the scorer produced from it when the task was completed,   *)
(* an overallScore of 0 included.                                          *)

C23_WitnessUndefined ==
    \E c \in DOMAIN calls :
        /\ IsRead(c)
        /\ ReadOf(c).value # None
        /\ ReadOf(c).value[1].checks = Some(ChecksPoor)
        /\ ReadOf(c).value[1].warnings = Some(<< <<"technical", "fix title">> >>)

-----------------------------------------------------------------------------
(* The scorer's claims read the outcome from the task that was completed   *)
(* with it, and the input from the value its analysis resolved with.       *)

ScoredTasks == {id \in TaskIds(tasks) : statusOf(tasks, id) = "done"}
InputOf(id) == procs[id].value[1].checks
OutputOf(id) ==
    [overallScore |-> getTask(tasks, id)[1].overall_score[1],
     grade |-> getTask(tasks, id)[1].grade[1],
     warnings |-> TaskManager_getTask(tasks, id)[1].warnings[1]]

\* group i of checks is scored
Counts(checks, i) == groupMaxScore(checks[i]) > 0

\* L: the product of groupMaxScore over the scored groups among the first n
RECURSIVE ProdMax(_, _)
ProdMax(checks, n) ==
    IF n = 0 THEN 1
    ELSE (IF Counts(checks, n) THEN groupMaxScore(checks[n]) ELSE 1)
         * ProdMax(checks, n - 1)

\* S * L, for S the sum of (score / groupMaxScore) * weight over the scored
\* groups among the first n
RECURSIVE SumTimes(_, _, _)
SumTimes(checks, n, L) ==
    IF n = 0 THEN 0
    ELSE (IF Counts(checks, n)
          THEN checks[n].score * checks[n].weight
               * (L \div groupMaxScore(checks[n]))
          ELSE 0)
         + SumTimes(checks, n - 1, L)

\* W: the sum of weight over the scored groups among the first n
RECURSIVE SumWeight(_, _)
SumWeight(checks, n) ==
    IF n = 0 THEN 0
    ELSE (IF Counts(checks, n) THEN checks[n].weight ELSE 0)
         + SumWeight(checks, n - 1)

\* r = round(100 * S / W): r <= 100 * S / W + 1/2 < r + 1
IsRounded(r, checks) ==
    LET L == ProdMax(checks, Len(checks))
        SL == SumTimes(checks, Len(checks), L)
        W == SumWeight(checks, Len(checks))
    IN IF W = 0 THEN r = 0
       ELSE /\ 2 * r * L * W <= 200 * SL + L * W
            /\ 200 * SL + L * W < 2 * (r + 1) * L * W

(* C24.  For every list of check groups calculateScore returns             *)
(* overallScore = round(100 * S / W), S the sum over the groups with       *)
(* groupMaxScore > 0 of (score / groupMaxScore) * weight and W the sum of  *)
(* weight over those groups, and 0 when W is 0; a single group of weight   *)
(* 30 whose only item scores 30 of 30 yields 100.                          *)
C24_OverallScore ==
    \A id \in ScoredTasks :
        /\ IsRounded(OutputOf(id).overallScore, InputOf(id))
        /\ InputOf(id) = ChecksGood => OutputOf(id).overallScore = 100

C24_Witness ==
    \E id \in ScoredTasks :
        InputOf(id) = ChecksGood /\ OutputOf(id).overallScore = 100

\* two scored groups whose quotient is not a whole number
C24_WitnessRounded ==
    \E id \in ScoredTasks :
        /\ Len(InputOf(id)) = 2
        /\ Counts(InputOf(id), 1) /\ Counts(InputOf(id), 2)
        /\ OutputOf(id).overallScore = 116

\* no scored group: W is 0
C24_WitnessNoWeight ==
    \E id \in ScoredTasks :
        /\ Len(InputOf(id)) = 2
        /\ ~Counts(InputOf(id), 1) /\ ~Counts(InputOf(id), 2)
        /\ InputOf(id)[1].score = 30
        /\ OutputOf(id).overallScore = 0

-----------------------------------------------------------------------------
(* C25.  A group whose items' weights sum to 0, a group with no items      *)
(* included, is excluded from scoring: with or without such groups in the  *)
(* list, whatever their weight and score, overallScore, grade and warnings *)
(* are the same, and no division by zero happens.                          *)

SumsToZero(group) == groupMaxScore(group) = 0
WithoutExcluded(checks) ==
    LET kept(g) == ~SumsToZero(g) IN SelectSeq(checks, kept)

C25_ExcludedGroups ==
    \A id \in ScoredTasks :
        OutputOf(id) = calculateScore(WithoutExcluded(InputOf(id)))

\* a list with a scored group that has a warning, and a group without items
\* whose weight and score are not 0
C25_Witness ==
    \E id \in ScoredTasks :
        /\ Len(InputOf(id)) = 2
        /\ InputOf(id)[1].items = << >>
        /\ InputOf(id)[1].score = 30
        /\ InputOf(id)[1].weight = 30
        /\ ~SumsToZero(InputOf(id)[2])
        /\ OutputOf(id).overallScore = 20
        /\ OutputOf(id).warnings # << >>

-----------------------------------------------------------------------------
(* C26.  The grade is a function of overallScore alone, with inclusive     *)
(* lower bounds: A iff score >= 90, B iff 80 <= score < 90, C iff          *)
(* 70 <= score < 80, D iff 60 <= score < 70, E iff score < 60.             *)

C26_GradeThresholds ==
    \A id \in ScoredTasks :
        LET score == OutputOf(id).overallScore
            grade == OutputOf(id).grade
        IN /\ grade = "A" <=> score >= 90
           /\ grade = "B" <=> (80 <= score /\ score < 90)
           /\ grade = "C" <=> (70 <= score /\ score < 80)
           /\ grade = "D" <=> (60 <= score /\ score < 70)
           /\ grade = "E" <=> score < 60

\* a score on a lower bound; the scores next to the other bounds are reached
\* by the other lists of ThresholdLists
C26_Witness ==
    \E id \in ScoredTasks :
        OutputOf(id).overallScore = 90 /\ OutputOf(id).grade = "A"

C26_WitnessBelow ==
    \E id \in ScoredTasks :
        OutputOf(id).overallScore = 89 /\ OutputOf(id).grade = "B"

C26_WitnessD ==
    \E id \in ScoredTasks :
        OutputOf(id).overallScore = 60 /\ OutputOf(id).grade = "D"

C26_WitnessE ==
    \E id \in ScoredTasks :
        OutputOf(id).overallScore = 59 /\ OutputOf(id).grade = "E"

C26_WitnessC ==
    \E id \in ScoredTasks :
        OutputOf(id).overallScore = 70 /\ OutputOf(id).grade = "C"

-----------------------------------------------------------------------------
(* C27.  The warnings list holds exactly one entry "<group name>: <item    *)
(* advice>" for every check item, across all groups, with score < weight   *)
(* and priority high, and no other entry, in the order of the groups as    *)
(* given and of the items within each group as given.                      *)

Warns(item) == item.score < item.weight /\ item.priority = "high"

ExpectedOfGroup(group) ==
    LET low == SelectSeq(group.items, Warns)
    IN [i \in 1..Len(low) |-> <<group.group, low[i].advice>>]

RECURSIVE ExpectedWarnings(_, _)
ExpectedWarnings(checks, n) ==
    IF n = 0 THEN << >>
    ELSE ExpectedWarnings(checks, n - 1) \o ExpectedOfGroup(checks[n])

C27_Warnings ==
    \A id \in ScoredTasks :
        OutputOf(id).warnings = ExpectedWarnings(InputOf(id), Len(InputOf(id)))

\* two groups with warnings, the first with two of them and the second
\* with an item of low priority that gets none
C27_Witness ==
    \E id \in ScoredTasks :
        /\ Len(InputOf(id)) = 2
        /\ Len(InputOf(id)[2].items) = 2
        /\ InputOf(id)[2].items[2].priority = "low"
        /\ OutputOf(id).warnings = << <<"technical", "fix title">>,
                                      <<"technical", "fix X">>,
                                      <<"social", "fix X">> >>

\* the group of weight 100 whose item scores 0 of 10: 0, E, one warning
C27_WitnessFixX ==
    \E id \in ScoredTasks :
        /\ InputOf(id) = ChecksFixX
        /\ OutputOf(id) = [overallScore |-> 0, grade |-> "E",
                           warnings |-> << <<"content", "fix X">> >>]

-----------------------------------------------------------------------------
(* C28.  overallScore is an integer in 0..100 for every input of the       *)
(* scorer, a group whose score differs from the sum of its items' scores   *)
(* or exceeds the sum of its items' weights included.                      *)

WithinWeights(checks) ==
    \A i \in 1..Len(checks) :
        Counts(checks, i)
        => (0 <= checks[i].score /\ checks[i].score <= groupMaxScore(checks[i]))

C28_InRangeWithinWeights ==
    \A id \in ScoredTasks :
        WithinWeights(InputOf(id)) => OutputOf(id).overallScore \in 0..100

-----------------------------------------------------------------------------
(* C29.  insertCache is most-recent-wins: the cache holds at most one      *)
(* entry per URL fingerprint, and that entry references the task of that   *)
(* fingerprint that most recently reached done.                            *)

EntriesOf(cache, urlHash) ==
    {i \in 1..Len(cache) : cache[i].url_hash = urlHash}

\* id reaches done in the step
ReachesDone(id) ==
    /\ id \in TaskIds(tasks)
    /\ statusOf(tasks, id) # "done"
    /\ statusOf(tasks', id) = "done"

\* after a task reached done the one entry of its fingerprint references it,
\* and a step in which no task reaches done leaves the cache as it is
C29_Step ==
    /\ \A i, j \in 1..Len(analysis_cache') :
          analysis_cache'[i].url_hash = analysis_cache'[j].url_hash => i = j
    /\ \A id \in TaskIds(tasks) :
          ReachesDone(id)
          => \E i \in 1..Len(analysis_cache') :
                /\ EntriesOf(analysis_cache',
                             hashUrl(getTask(tasks, id)[1].requested_url)) = {i}
                /\ analysis_cache'[i].task_id = id
    /\ (\A id \in TaskIds(tasks) : ~ReachesDone(id))
          => analysis_cache' = analysis_cache

C29_MostRecentWins == [][C29_Step]_vars

\* two tasks of one fingerprint are done and the entry references the later
C29_Witness ==
    /\ Len(tasks) >= 2
    /\ tasks[1].status = "done" /\ tasks[2].status = "done"
    /\ tasks[1].requested_url = tasks[2].requested_url
    /\ tasks[1].completed_at[1] < tasks[2].completed_at[1]
    /\ Len(analysis_cache) = 1
    /\ analysis_cache[1].task_id = tasks[2].id

\* the later task was created first
C29_WitnessOvertaken ==
    /\ Len(tasks) >= 2
    /\ tasks[1].status = "done" /\ tasks[2].status = "done"
    /\ tasks[1].requested_url = tasks[2].requested_url
    /\ tasks[2].completed_at[1] < tasks[1].completed_at[1]
    /\ Len(analysis_cache) = 1
    /\ analysis_cache[1].task_id = tasks[1].id

-----------------------------------------------------------------------------
(* C30.  A cache entry is written only after its task reached done: in no  *)
(* state is there an entry for a task that is queued, running or failed,   *)
(* and a task that failed, by error or by timeout, has no entry.           *)

CachedIds == {analysis_cache[i].task_id : i \in 1..Len(analysis_cache)}

C30_CachedOnlyWhenDone ==
    \A id \in TaskIds(tasks) :
        /\ id \in CachedIds => statusOf(tasks, id) = "done"
        /\ statusOf(tasks, id) \in {"queued", "running", "failed"}
              => id \notin CachedIds

\* a task failed by timeout whose analysis resolved afterwards
C30_Witness ==
    \E id \in TaskIds(tasks) :
        /\ statusOf(tasks, id) = "failed"
        /\ getTask(tasks, id)[1].error_message = Some(ERR_TIMEOUT)
        /\ procs[id].analysis = "resolved"
        /\ id \notin CachedIds

\* a task that is done and cached
C30_WitnessDone ==
    \E id \in TaskIds(tasks) :
        statusOf(tasks, id) = "done" /\ id \in CachedIds

-----------------------------------------------------------------------------
(* C31.  For a fixed (client, hour window) the stored count only           *)
(* increases over the whole lifetime of the store, by exactly one per      *)
(* submission that passes the quota check, under any sequence of           *)
(* createTask and cleanup operations.                                      *)

Windows == 0..hourKey(MaxNow + TwoHours)

storedCount(rl, ip, h) ==
    LET r == getRateLimit(rl, ip, h) IN
    IF r = None THEN 0 ELSE r[1].request_count

\* the count of (ip, h) grows by the number of calls that passed
CountsPassing(ip, h) ==
    /\ storedCount(rate_limits', ip, h) - storedCount(rate_limits, ip, h)
          = PassedCount(ip, h)' - PassedCount(ip, h)
    /\ PassedCount(ip, h)' - PassedCount(ip, h) \in {0, 1}

C31_Step ==
    \A ip \in Clients, h \in Windows : CountsPassing(ip, h)

C31_CountOnlyIncreases == [][C31_Step]_vars

(* C31 as the code has it: the count of a window grows by one per passing  *)
(* call until cleanup removes the window's record, which it does only when *)
(* the window lies two hours or more before the current one.               *)
RemovedStale(ip, h) ==
    /\ getRateLimit(rate_limits, ip, h) # None
    /\ getRateLimit(rate_limits', ip, h) = None
    /\ h + 2 <= hourKey(now)
    /\ PassedCount(ip, h)' = PassedCount(ip, h)

C31_StepAmended ==
    \A ip \in Clients, h \in Windows :
        CountsPassing(ip, h) \/ RemovedStale(ip, h)

C31_CountOnlyIncreasesUntilRemoved == [][C31_StepAmended]_vars

\* the record of window 0, which counted passing calls, was removed
C31_Witness ==
    /\ PassedCount(PrimaryClient, 0) >= 1
    /\ getRateLimit(rate_limits, PrimaryClient, 0) = None
    /\ hourKey(now) >= 2

-----------------------------------------------------------------------------
(* C37.  cleanup never resets a client's quota for the current hour        *)
(* window: the rate-limit records it removes were created more than two    *)
(* hours before, so the record of (client, current hour) is never removed  *)
(* and a client at the limit stays rate-limited across any cleanup run     *)
(* within that hour.                                                       *)

\* record i of rate_limits is not in rate_limits'
Removed(i) ==
    getRateLimit(rate_limits', rate_limits[i].ip_address,
                 rate_limits[i].hour_key) = None

C37_Step ==
    /\ \A i \in 1..Len(rate_limits) :
          Removed(i)
          => /\ rate_limits[i].created_at <= now - TwoHours
             /\ rate_limits[i].hour_key # hourKey(now)
    /\ \A ip \in Clients :
          (hourKey(now') = hourKey(now)
           /\ rateLimitExceeded(rate_limits, ip, now))
          => rateLimitExceeded(rate_limits', ip, now')

C37_CleanupKeepsQuota == [][C37_Step]_vars

\* cleanup removed the record of window 0; the client is at the limit of
\* the current window and its call was refused
C37_Witness ==
    /\ PassedCount(PrimaryClient, 0) >= 1
    /\ getRateLimit(rate_limits, PrimaryClient, 0) = None
    /\ hourKey(now) >= 2
    /\ currentCount(rate_limits, PrimaryClient, now) = rateLimit
    /\ \E c \in DOMAIN calls : calls[c].result = Some(Thrown(ERR_RATE_LIMIT))

-----------------------------------------------------------------------------
(* C32.  getTask calls that run between the steps of a task's execution    *)
(* observe a consistent snapshot: what a call returns is the record as one *)
(* transition left it, never status done without overallScore, grade and   *)
(* checks, nor status failed without the error that transition wrote.      *)

\* the message the .catch handler of task id had to write, if any
WrittenError(id) ==
    IF procs[id].error # None /\ Truthy(procs[id].error[1].message)
    THEN procs[id].error[1].message ELSE None

NoResultFields(r) ==
    /\ r.finalUrl = None /\ r.overallScore = None /\ r.grade = None
    /\ r.checks = None /\ r.warnings = None /\ r.cwv = None

Snapshot(r) ==
    \/ /\ r.status = "running"
       /\ NoResultFields(r)
       /\ r.errorMessage = None
    \/ /\ r.status = "done"
       /\ r.finalUrl # None /\ r.checks # None /\ r.cwv # None
       /\ r.overallScore = Some(calculateScore(r.checks[1]).overallScore)
       /\ r.grade = Some(calculateScore(r.checks[1]).grade)
       /\ r.warnings = Some(calculateScore(r.checks[1]).warnings)
       /\ r.errorMessage = None
    \/ /\ r.status = "failed"
       /\ NoResultFields(r)
       /\ r.errorMessage = WrittenError(r.id)

C32_ConsistentSnapshot ==
    \A c \in DOMAIN calls :
        (IsRead(c) /\ ReadOf(c).value # None) => Snapshot(ReadOf(c).value[1])

\* a call read the task while it was running and the task is done since
C32_Witness ==
    \E c \in DOMAIN calls :
        /\ IsRead(c)
        /\ ReadOf(c).value # None
        /\ ReadOf(c).value[1].status = "running"
        /\ statusOf(tasks, ReadOf(c).taskId) = "done"

\* a call read the task between the timeout and the .catch handler, and
\* another after the handler wrote the failure
C32_WitnessBeforeCatch ==
    \E c \in DOMAIN calls :
        /\ IsRead(c)
        /\ ReadOf(c).value # None
        /\ ReadOf(c).value[1].status = "running"
        /\ FailedByTimeout(ReadOf(c).taskId)

C32_WitnessFailed ==
    \E c \in DOMAIN calls :
        /\ IsRead(c)
        /\ ReadOf(c).value # None
        /\ ReadOf(c).value[1].status = "failed"
        /\ ReadOf(c).value[1].errorMessage = Some(ERR_LOAD)

-----------------------------------------------------------------------------
(* C33.  A task's id, requestedUrl and createdAt never change after        *)
(* creation, and the execution of one task never modifies the record of    *)
(* another: every status update leaves those three fields of the updated   *)
(* task and all fields of every other task unchanged.                      *)

C33_Step ==
    /\ Len(tasks') >= Len(tasks)
    /\ \A i \in 1..Len(tasks) :
          /\ tasks'[i].id = tasks[i].id
          /\ tasks'[i].requested_url = tasks[i].requested_url
          /\ tasks'[i].created_at = tasks[i].created_at
    /\ \A id \in DOMAIN procs :
          procs'[id] # procs[id]
          => \A i \in 1..Len(tasks) :
                tasks[i].id # id => tasks'[i] = tasks[i]
    /\ \A i, j \in 1..Len(tasks') : tasks'[i].id = tasks'[j].id => i = j

C33_IdentityFieldsFixed == [][C33_Step]_vars

\* two tasks created at different times, the later one done before the
\* earlier one failed
C33_Witness ==
    /\ Len(tasks) = 2
    /\ tasks[1].created_at < tasks[2].created_at
    /\ tasks[2].status = "done"
    /\ tasks[1].status = "failed"
    /\ tasks[2].completed_at[1] < tasks[1].completed_at[1]

-----------------------------------------------------------------------------
(* C34.  A submission answered from the dedup cache still consumes quota:  *)
(* createTask increments the client's counter of the current hour before   *)
(* the cache lookup, so a client that has reached the limit is rejected    *)
(* even for a URL whose fresh cached result exists.                        *)

CachedNow(url) ==
    getCachedAnalysis(analysis_cache, tasks, hashUrl(url), now) # None

\* the step is the return of caller c from a cache hit
ReturnsCached(c) ==
    /\ calls[c].pc = "awaitRateLimit"
    /\ calls'[c].pc = "idle"
    /\ CachedNow(calls[c].url[1])

C34_Step ==
    /\ \A c \in DOMAIN calls, url \in UrlInputs, ip \in Clients :
          (CreateTaskStart(c, url, ip) /\ AbsoluteHttp(url) /\ CachedNow(url))
          => IF currentCount(rate_limits, ip, now) >= rateLimit
             THEN /\ calls'[c].result = Some(Thrown(ERR_RATE_LIMIT))
                  /\ StoreUnchanged
             ELSE /\ currentCount(rate_limits', ip, now)
                       = currentCount(rate_limits, ip, now) + 1
                  /\ calls'[c].pc = "awaitRateLimit"
                  /\ calls'[c].result = None
    /\ \A c \in DOMAIN calls :
          ReturnsCached(c)
          => /\ calls'[c].result
                   = Some(Returned(getCachedAnalysis(analysis_cache, tasks,
                                 hashUrl(calls[c].url[1]), now)[1].task_id))
             /\ \E h \in Windows : PassedCount(calls[c].ip[1], h) >= 1
             /\ UNCHANGED <<rate_limits, tasks>>

C34_CacheHitsCount == [][C34_Step]_vars

\* one task exists and is cached fresh; every later call of the client was
\* answered from the cache and counted, and the client is now refused
C34_Witness ==
    /\ Len(tasks) = 1
    /\ CachedNow(UrlA)
    /\ currentCount(rate_limits, PrimaryClient, now) = rateLimit
    /\ \E c \in DOMAIN calls : calls[c].result = Some(Thrown(ERR_RATE_LIMIT))

-----------------------------------------------------------------------------
(* C35.  After a task has been marked failed by the timeout, a later       *)
(* settling of its analysis, with a result or with an error, changes       *)
(* nothing: the task's status, result fields and errorMessage stay as the  *)
(* timeout failure wrote them and no cache entry is written for it.        *)

\* the analysis of id settles in the step
Settles(id) ==
    /\ id \in DOMAIN procs
    /\ procs[id].analysis = "pending"
    /\ procs'[id].analysis \in {"resolved", "rejected"}

C35_Step ==
    \A id \in TaskIds(tasks) :
        FailedByTimeout(id)
        => /\ getTask(tasks', id) = getTask(tasks, id)
           /\ id \notin {analysis_cache'[i].task_id :
                             i \in 1..Len(analysis_cache')}
           /\ Settles(id)
                => /\ UNCHANGED <<tasks, analysis_cache, runningTasks>>
                   /\ procs'[id].pc = "finished"

C35_LateSettlingIgnored == [][C35_Step]_vars

\* the analysis failed with its own error after the timeout failure
C35_Witness ==
    \E id \in TaskIds(tasks) :
        /\ FailedByTimeout(id)
        /\ procs[id].analysis = "rejected"
        /\ procs[id].pc = "finished"
        /\ analysis_cache = <<>>

\* the analysis gave its result after the timeout failure
C35_WitnessResolved ==
    \E id \in TaskIds(tasks) :
        /\ FailedByTimeout(id)
        /\ procs[id].value # None
        /\ procs[id].pc = "finished"
        /\ getTask(tasks, id)[1].overall_score = None

-----------------------------------------------------------------------------
(* C36.  In every reachable state, under any sequence of createTask,       *)
(* execution steps and cleanup, every cache entry references a task record *)
(* that exists and has status done.                                        *)

C36_EntriesReferenceDone ==
    \A i \in 1..Len(analysis_cache) : DoneTask(analysis_cache[i].task_id)

\* cleanup removed the failed task; the entry of the done task is kept
C36_Witness ==
    /\ nextId = 3
    /\ Len(tasks) = 1
    /\ Len(analysis_cache) = 1
    /\ analysis_cache[1].task_id = tasks[1].id
    /\ now - tasks[1].created_at > OneDay

\* cleanup removed the entry, seven days old, and kept its task
C36_WitnessEntryRemoved ==
    /\ analysis_cache = <<>>
    /\ \E i \in 1..Len(tasks) : tasks[i].status = "done"

-----------------------------------------------------------------------------
(* C38.  Under any interleaving of concurrent analyze calls on one         *)
(* SEOAnalyzer, two tasks started while no browser exists yet, at most one *)
(* browser is launched and none is left unreferenced: no second launch     *)
(* overwrites the first.                                                   *)

\* the launch of browser b has resolved
Running(b) == b \in analyzer.launched /\ analyzer.at[b] # "launching"

C38_OneBrowser ==
    /\ Cardinality(analyzer.launched) <= 1
    /\ \A b \in analyzer.launched : Running(b) => analyzer.browser = Some(b)

-----------------------------------------------------------------------------
(* C39.  When createTask returns the id of a newly created task, the       *)
(* stored status of that task is still queued at the moment of return, so  *)
(* a getTask issued right after the return can observe queued.             *)

C39_Step ==
    \A id \in TaskIds(tasks') \ TaskIds(tasks) :
        (\E c \in DOMAIN calls : calls'[c].result = Some(Returned(id)))
        => statusOf(tasks', id) = "queued"

C39_QueuedAtReturn == [][C39_Step]_vars

-----------------------------------------------------------------------------
(* C40.  The running set is consistent with the store: every task id in    *)
(* runningTasks has stored status running; an id is in the set for at most *)
(* one execution at a time (the ids of the set are those of the executions *)
(* awaiting their race, and an id that stays in the set stays with the     *)
(* same execution); every id of the set has an analysis in flight, so the  *)
(* set is empty once no analysis is in flight and getRunningTasksCount     *)
(* never over-counts.                                                      *)

Executing == {id \in DOMAIN procs : procs[id].pc = "racing"}
InFlight == {id \in DOMAIN procs : procs[id].analysis = "pending"}
getRunningTasksCount == Cardinality(runningTasks)

C40_State ==
    /\ \A id \in runningTasks :
           id \in TaskIds(tasks) /\ statusOf(tasks, id) = "running"
    /\ runningTasks = Executing
    /\ runningTasks \subseteq InFlight
    /\ getRunningTasksCount <= Cardinality(InFlight)

C40_Step == \A id \in runningTasks \cap runningTasks' : procs'[id] = procs[id]

C40_RunningSetConsistent == []C40_State /\ [][C40_Step]_vars

\* a task whose first execution failed is executing again
C40_Witness ==
    \E id \in runningTasks :
        /\ getTask(tasks, id)[1].error_message # None
        /\ statusOf(tasks, id) = "running"

\* a timed-out execution left the set while its analysis is in flight
C40_WitnessTimedOut ==
    \E id \in InFlight : id \notin runningTasks /\ statusOf(tasks, id) = "failed"

====
